---- MODULE Spec2Model ----
(***************************************************************************)
(* KeplerAI: the inference side (backend/app.py, ExoplanetPredictor) and   *)
(* the training side (backend/train_model.py, ExoplanetClassifier).        *)
(*                                                                         *)
(* Numbers.  Feature values and table cells are integers; NA stands for a  *)
(* missing cell (NaN in a table, an absent key in a feature dict).  Class  *)
(* probabilities are vote counts out of NTrees, so "sums to 1" reads       *)
(* "sums to NTrees".  Quartiles are kept multiplied by 4 and the IQR       *)
(* bounds multiplied by 8, so all comparisons are exact.                   *)
(***************************************************************************)
EXTENDS Integers, Sequences, FiniteSets, TLC

VARIABLES
    \* ---- models/ directory: the four persisted files (0 = absent, r = run r)
    disk,
    \* ---- ExoplanetPredictor fields (0 = None, r = object loaded from run r)
    model, scaler, label_encoder, feature_columns,
    \* ---- position of the running load_model call, and of the running save_model
    loadPc, savePc, saveRun,
    \* ---- whether some load_model call has read all four files (history)
    everLoaded,
    \* ---- the last predict call: its argument and what it returned or raised
    features, outcome,
    \* ---- the predict calls in flight on the server's threads: per call its
    \* position, the dict the caller passed, that dict as it is now, the local
    \* frame features_df, the local probabilities, and the result
    calls,
    \* ---- the training run (train_model.py main): its position, the table
    \* before and after the last preprocessing step, the split, whether a
    \* classifier was fitted, the exception raised, and what save_model wrote
    pc, prev, df, split, trained, raised, persisted

predVars == <<disk, model, scaler, label_encoder, feature_columns,
              loadPc, savePc, saveRun, everLoaded, features, outcome, calls>>
trainVars == <<pc, prev, df, split, trained, raised, persisted>>
vars == <<disk, model, scaler, label_encoder, feature_columns,
          loadPc, savePc, saveRun, everLoaded, features, outcome, calls,
          pc, prev, df, split, trained, raised, persisted>>

----------------------------------------------------------------------------
(* Bounds of the model *)

\* training runs whose bundles can be on disk
NRuns == 2
\* trees of the forest (n_estimators), scaled down
NTrees == 10
\* largest koi_period value of a predict input
MaxPeriod == 4
\* largest value of an optional feature of a predict input
MaxOpt == 1
\* how many required features one predict input may lack
MaxMissing == 1
\* table cells are 0, 2, ..., 2 * MaxVal
MaxVal == 3
\* rows of the tables of the outlier family and of the missing-value family
MaxOutlierRows == 5
MaxMissingRows == 3
\* rows per label of the tables of the label family
MaxPerClass == 7
\* predict calls that can be in flight at once
NCalls == 2

----------------------------------------------------------------------------
(* FeatureSchema *)

None == 0
NA == -1

FeatureColumns ==
    <<"koi_period", "koi_duration", "koi_depth", "koi_prad", "koi_teq",
      "koi_insol", "koi_model_snr", "koi_steff", "koi_srad",
      "koi_impact", "koi_score", "koi_slogg">>

NumRequired == 9

Range(s) == {s[i] : i \in DOMAIN s}

FeatureSet == Range(FeatureColumns)
RequiredSet == {FeatureColumns[i] : i \in 1..NumRequired}
\* the literal list of predict's defaulting branch
OptionalParams == {"koi_impact", "koi_score", "koi_slogg"}
DefaultOptional == 0

ValidDispositions == <<"CONFIRMED", "CANDIDATE", "FALSE POSITIVE">>
\* LabelEncoder.classes_ is sorted
LabelOrder == <<"CANDIDATE", "CONFIRMED", "FALSE POSITIVE">>

Files == <<"exoplanet_classifier.pkl", "feature_scaler.pkl",
           "label_encoder.pkl", "feature_names.txt">>
FileSet == Range(Files)

Runs == 1..NRuns

----------------------------------------------------------------------------
(* The artifact bundle of training run r, as save_model persists it *)

\* classes_ of run r's label encoder: the sorted labels of its training data
RunClasses(r) ==
    CASE r = 1 -> LabelOrder
      [] r = 2 -> <<"CANDIDATE", "CONFIRMED">>
      [] r = 3 -> <<"CONFIRMED", "FALSE POSITIVE">>
      [] OTHER -> <<"FALSE POSITIVE">>

\* StandardScaler parameters of run r (the same for every feature)
RunMean(r) == r - 1
RunScale(r) == IF r % 2 = 1 THEN 1 ELSE 2

\* feature_names.txt of run r: one line per entry of feature_columns
RunFeatureNames(r) == FeatureColumns

\* The forest of run r: tree t tests one scaled feature against a threshold.
TreeFeature(t) == IF t <= 3 THEN FeatureColumns[NumRequired + t] ELSE FeatureColumns[1]
TreeThreshold(t) == IF t <= 3 THEN 0 ELSE (t - 4) \div 2

\* the class index tree t of a forest over k classes votes for
TreeVote(k, t, high) ==
    IF high /\ k > 1 THEN ((t - 1) % (k - 1)) + 1 ELSE k

\* scaler.transform: (x - mean_) / scale_, kept as numerator and denominator
ScalerTransform(s, selected) ==
    [c \in DOMAIN selected |-> <<selected[c] - RunMean(s), RunScale(s)>>]

\* model.predict_proba: votes per class index, out of NTrees
PredictProba(m, scaled) ==
    LET k == Len(RunClasses(m))
        high(t) == scaled[TreeFeature(t)][1] > TreeThreshold(t) * scaled[TreeFeature(t)][2]
    IN  [i \in 1..k |-> Cardinality({t \in 1..NTrees : TreeVote(k, t, high(t)) = i})]

----------------------------------------------------------------------------
(* ExoplanetPredictor.predict *)

CC == "CONFIRMED/CANDIDATE"
FP == "FALSE POSITIVE"

NoScores == [k \in {} |-> 0]

Raise(error, named) ==
    [kind |-> "raise", error |-> error, named |-> named,
     prediction |-> "", confidence_scores |-> NoScores, max_confidence |-> 0,
     features_used |-> <<>>, probabilities |-> <<>>, classes |-> <<>>]

NoOutcome ==
    [kind |-> "none", error |-> "", named |-> "",
     prediction |-> "", confidence_scores |-> NoScores, max_confidence |-> 0,
     features_used |-> <<>>, probabilities |-> <<>>, classes |-> <<>>]

\* the loop over self.feature_columns: the first required column the input
\* lacks ("" when there is none); optional columns are defaulted, not reported
\* the defaulting branch taken for every column after the first eight
RECURSIVE FirstMissingRequired_DefaultsNinth(_, _, _)
FirstMissingRequired_DefaultsNinth(cols, x, i) ==
    IF i > Len(cols) THEN ""
    ELSE IF x[cols[i]] = NA /\ i < NumRequired THEN cols[i]
    ELSE FirstMissingRequired_DefaultsNinth(cols, x, i + 1)

RECURSIVE FirstMissingRequired(_, _, _)
FirstMissingRequired(cols, x, i) ==
    IF i > Len(cols) THEN ""
    ELSE IF x[cols[i]] = NA /\ cols[i] \notin OptionalParams THEN cols[i]
    ELSE FirstMissingRequired(cols, x, i + 1)

\* absent optional columns filled with a value other than 0.0
FillDefaults_NonZero(cols, x) ==
    [c \in Range(cols) |-> IF x[c] = NA THEN DefaultOptional + 1 ELSE x[c]]

\* features_df after the loop: absent optional columns hold the default
FillDefaults(cols, x) ==
    [c \in Range(cols) |-> IF x[c] = NA THEN DefaultOptional ELSE x[c]]

\* confidence_scores[class_name] = probabilities[0][i]
ConfidenceScores(classes, proba) ==
    [c \in Range(classes) |->
        proba[CHOOSE i \in DOMAIN classes : classes[i] = c]]

\* confirmed_candidate_score: the sum over CONFIRMED and CANDIDATE
ConfirmedCandidateScore(scores) ==
    (IF "CONFIRMED" \in DOMAIN scores THEN scores["CONFIRMED"] ELSE 0)
    + (IF "CANDIDATE" \in DOMAIN scores THEN scores["CANDIDATE"] ELSE 0)

\* merged_confidence_scores: every other class keeps its entry, plus the merged one
MergedConfidenceScores(scores) ==
    [k \in (DOMAIN scores \ {"CONFIRMED", "CANDIDATE"}) \cup {CC} |->
        IF k = CC THEN ConfirmedCandidateScore(scores) ELSE scores[k]]

\* merged_confidence_scores.get('FALSE POSITIVE', 0.0)
FalsePositiveScore(merged) == IF FP \in DOMAIN merged THEN merged[FP] ELSE 0

\* model.predict: the class index of the largest probability, the first on ties
ModelPredict(proba) ==
    CHOOSE i \in DOMAIN proba :
        /\ \A j \in DOMAIN proba : proba[j] <= proba[i]
        /\ \A j \in DOMAIN proba : j < i => proba[j] < proba[i]

\* the comparison with >= : a tie goes to CONFIRMED/CANDIDATE
FinalPrediction_TieToCC(cc, fp) == IF cc >= fp THEN CC ELSE FP

FinalPrediction(cc, fp) == IF cc > fp THEN CC ELSE FP

\* max_confidence taken from confirmed_candidate_score on both branches
MaxConfidence_AlwaysMerged(cc, fp) == cc

MaxConfidence(cc, fp) == IF cc > fp THEN cc ELSE fp

\* predict(features) on a predictor whose fields are m, s, e, fc
PredictOutcome(m, s, e, fc, x) ==
    IF m = None THEN Raise("ValueError: Model not loaded", "")
    ELSE IF fc = None THEN Raise("TypeError", "")
    ELSE
      LET cols == RunFeatureNames(fc)
          lacking == FirstMissingRequired(cols, x, 1)
      IN
      IF lacking # "" THEN Raise("ValueError: Required feature is missing", lacking)
      ELSE IF s = None \/ e = None THEN Raise("AttributeError", "")
      ELSE
        LET proba == PredictProba(m, ScalerTransform(s, FillDefaults(cols, x)))
            classes == RunClasses(e)
        IN
        IF ModelPredict(proba) > Len(classes)
        THEN Raise("ValueError: y contains previously unseen labels", "")
        ELSE IF Len(classes) > Len(proba) THEN Raise("IndexError", "")
        ELSE
          LET merged == MergedConfidenceScores(ConfidenceScores(classes, proba))
              cc == merged[CC]
              fp == FalsePositiveScore(merged)
          IN  [kind |-> "return", error |-> "", named |-> "",
               prediction |-> FinalPrediction(cc, fp),
               confidence_scores |-> merged,
               max_confidence |-> MaxConfidence(cc, fp),
               features_used |-> cols,
               probabilities |-> proba, classes |-> classes]

\* The feature dicts predict is called with.  Complete ones: koi_period and the
\* optional features vary (an optional feature may be left out), the other
\* required features are 0.  Lacking ones: 1 to MaxMissing required features
\* are left out, each optional feature is 0 or left out.
CompleteInputs ==
    {[c \in FeatureSet |->
        IF c = "koi_period" THEN p
        ELSE IF c \in OptionalParams THEN o[c]
        ELSE 0] :
      p \in 0..MaxPeriod,
      o \in [OptionalParams -> {NA} \cup (0..MaxOpt)]}

LackingInputs ==
    {[c \in FeatureSet |->
        IF c \in lack THEN NA
        ELSE IF c \in OptionalParams THEN o[c]
        ELSE 0] :
      lack \in {l \in SUBSET RequiredSet : Cardinality(l) \in 1..MaxMissing},
      o \in [OptionalParams -> {NA, 0}]}

Inputs == CompleteInputs \cup LackingInputs

NoFeatures == [c \in FeatureSet |-> NA]

\* predictor.predict(features), called by predict_exoplanet
Predict(x) ==
    /\ outcome.kind = "none"
    /\ loadPc = 0
    /\ features' = x
    /\ outcome' = PredictOutcome(model, scaler, label_encoder, feature_columns, x)
    /\ UNCHANGED <<disk, model, scaler, label_encoder, feature_columns,
                   loadPc, savePc, saveRun, everLoaded>>
    /\ UNCHANGED <<calls, trainVars>>

\* predict_exoplanet answers the request with the result or the error
Respond ==
    /\ outcome.kind # "none"
    /\ features' = NoFeatures
    /\ outcome' = NoOutcome
    /\ UNCHANGED <<disk, model, scaler, label_encoder, feature_columns,
                   loadPc, savePc, saveRun, everLoaded>>
    /\ UNCHANGED <<calls, trainVars>>

----------------------------------------------------------------------------
(* ExoplanetPredictor.predict, step by step, called from several threads *)

Calls == 1..NCalls

IdleCall ==
    [pc |-> "idle", given |-> NoFeatures, arg |-> NoFeatures,
     features_df |-> NoFeatures, proba |-> <<>>, result |-> NoOutcome]

\* The feature dicts of the concurrent calls: koi_period is 0 or MaxPeriod,
\* koi_impact varies, koi_score and koi_slogg are left out, and the only
\* required feature that may be lacking is the last one.
ConcurrentInputs ==
    {x \in Inputs :
        /\ x["koi_period"] \in {0, MaxPeriod}
        /\ x["koi_score"] = NA
        /\ x["koi_slogg"] = NA
        /\ \A c \in RequiredSet \ {"koi_srad"} : x[c] # NA}

\* features_df bound to the caller's object instead of a copy of it
FillMissing_InPlace(cols, arg, features_df) ==
    [arg |-> FillDefaults(cols, arg), features_df |-> FillDefaults(cols, arg)]

\* features_df is a new frame (pd.DataFrame([features]) or features.copy()),
\* so features_df[col] = 0.0 writes to the copy and not to the caller's object
FillMissing(cols, arg, features_df) ==
    [arg |-> arg, features_df |-> FillDefaults(cols, features_df)]

\* self.scaler.transform(features_selected): the scaler is read, not fitted
ScaleFeatures(s, selected) ==
    [scaler |-> s, scaled |-> ScalerTransform(s, selected)]

\* the call enters predict: the model check, then the copy of the input
CallStep(c, x) ==
    /\ calls[c].pc = "idle"
    /\ calls' = [calls EXCEPT ![c] =
          IF model = None
          THEN [IdleCall EXCEPT !.pc = "done", !.given = x, !.arg = x,
                                !.result = Raise("ValueError: Model not loaded", "")]
          ELSE [IdleCall EXCEPT !.pc = "copied", !.given = x, !.arg = x,
                                !.features_df = x]]
    /\ UNCHANGED <<disk, model, scaler, label_encoder, feature_columns,
                   loadPc, savePc, saveRun, everLoaded, features, outcome>>
    /\ UNCHANGED trainVars

\* the loop over self.feature_columns and the column selection
ValidateStep(c) ==
    /\ calls[c].pc = "copied"
    /\ LET call == calls[c]
           cols == RunFeatureNames(feature_columns)
           lacking == FirstMissingRequired(cols, call.features_df, 1)
           filled == FillMissing(cols, call.arg, call.features_df)
       IN  calls' = [calls EXCEPT ![c] =
             IF feature_columns = None
             THEN [call EXCEPT !.pc = "done", !.result = Raise("TypeError", "")]
             ELSE IF lacking # ""
             THEN [call EXCEPT !.pc = "done",
                     !.result = Raise("ValueError: Required feature is missing", lacking)]
             ELSE [call EXCEPT !.pc = "completed", !.arg = filled.arg,
                     !.features_df = filled.features_df]]
    /\ UNCHANGED <<disk, model, scaler, label_encoder, feature_columns,
                   loadPc, savePc, saveRun, everLoaded, features, outcome>>
    /\ UNCHANGED trainVars

\* scaler.transform, model.predict, model.predict_proba, inverse_transform
InferStep(c) ==
    /\ calls[c].pc = "completed"
    /\ LET call == calls[c]
           fitted == ScaleFeatures(scaler, call.features_df)
           proba == PredictProba(model, fitted.scaled)
       IN  IF scaler = None
           THEN /\ calls' = [calls EXCEPT ![c] =
                      [call EXCEPT !.pc = "done", !.result = Raise("AttributeError", "")]]
                /\ UNCHANGED scaler
           ELSE /\ scaler' = fitted.scaler
                /\ calls' = [calls EXCEPT ![c] =
                      IF label_encoder = None
                      THEN [call EXCEPT !.pc = "done",
                              !.result = Raise("AttributeError", "")]
                      ELSE IF ModelPredict(proba) > Len(RunClasses(label_encoder))
                      THEN [call EXCEPT !.pc = "done",
                              !.result = Raise("ValueError: y contains previously unseen labels", "")]
                      ELSE [call EXCEPT !.pc = "inferred", !.proba = proba]]
    /\ UNCHANGED <<disk, model, label_encoder, feature_columns,
                   loadPc, savePc, saveRun, everLoaded, features, outcome>>
    /\ UNCHANGED trainVars

\* the confidence scores, the merge, the verdict and the returned dict
MergeStep(c) ==
    /\ calls[c].pc = "inferred"
    /\ LET call == calls[c]
           classes == RunClasses(label_encoder)
           merged == MergedConfidenceScores(ConfidenceScores(classes, call.proba))
           cc == merged[CC]
           fp == FalsePositiveScore(merged)
       IN  calls' = [calls EXCEPT ![c] =
             IF Len(classes) > Len(call.proba)
             THEN [call EXCEPT !.pc = "done", !.result = Raise("IndexError", "")]
             ELSE [call EXCEPT !.pc = "done", !.result =
                     [kind |-> "return", error |-> "", named |-> "",
                      prediction |-> FinalPrediction(cc, fp),
                      confidence_scores |-> merged,
                      max_confidence |-> MaxConfidence(cc, fp),
                      features_used |-> RunFeatureNames(feature_columns),
                      probabilities |-> call.proba, classes |-> classes]]]
    /\ UNCHANGED <<disk, model, scaler, label_encoder, feature_columns,
                   loadPc, savePc, saveRun, everLoaded, features, outcome>>
    /\ UNCHANGED trainVars

\* predict_exoplanet answers the request of call c
ReturnStep(c) ==
    /\ calls[c].pc = "done"
    /\ calls' = [calls EXCEPT ![c] = IdleCall]
    /\ UNCHANGED <<disk, model, scaler, label_encoder, feature_columns,
                   loadPc, savePc, saveRun, everLoaded, features, outcome>>
    /\ UNCHANGED trainVars

----------------------------------------------------------------------------
(* ExoplanetPredictor.load_model *)

\* all(os.path.exists(path) for path in [...])
AllExist(d) == \A f \in FileSet : d[f] # 0

\* The fields after load_model has read the first n files of d and stopped
\* (n = 4: the whole bundle; n < 4: the read of file n+1 raised, and the
\* except clause only logs).  old is <<model, scaler, label_encoder, feature_columns>>.
LoadedFields(old, d, n) ==
    [i \in 1..4 |-> IF i <= n THEN d[Files[i]] ELSE old[i]]

\* the whole of load_model; failAt = 0: no read fails, failAt = i: reading file i raises
LoadModelFields(old, d, failAt) ==
    IF ~AllExist(d) THEN old
    ELSE IF failAt = 0 THEN LoadedFields(old, d, 4)
    ELSE LoadedFields(old, d, failAt - 1)

\* load_model run to completion (the constructor's call, or an explicit reload)
LoadModel(failAt) ==
    /\ loadPc = 0
    /\ outcome.kind = "none"
    /\ LET new == LoadModelFields(<<model, scaler, label_encoder, feature_columns>>,
                                  disk, failAt)
       IN  /\ model' = new[1]
           /\ scaler' = new[2]
           /\ label_encoder' = new[3]
           /\ feature_columns' = new[4]
    /\ everLoaded' = (everLoaded \/ (AllExist(disk) /\ failAt = 0))
    /\ UNCHANGED <<disk, loadPc, savePc, saveRun, features, outcome>>
    /\ UNCHANGED <<calls, trainVars>>

\* main() of train_model.py run to completion as training run r: the four
\* files of the bundle are on disk
TrainingRun(r) ==
    /\ savePc = 0
    /\ outcome.kind = "none"
    /\ disk' = [f \in FileSet |-> r]
    /\ UNCHANGED <<model, scaler, label_encoder, feature_columns,
                   loadPc, savePc, saveRun, everLoaded, features, outcome>>
    /\ UNCHANGED <<calls, trainVars>>

----------------------------------------------------------------------------
(* load_model and save_model file by file, for their interleavings *)

\* load_model starts: the existence test
LoadStart ==
    /\ loadPc = 0
    /\ loadPc' = IF AllExist(disk) THEN 1 ELSE 0
    /\ UNCHANGED <<disk, model, scaler, label_encoder, feature_columns,
                   savePc, saveRun, everLoaded, features, outcome>>
    /\ UNCHANGED <<calls, trainVars>>

\* load_model reads file number loadPc into its field
LoadFile ==
    /\ loadPc \in 1..4
    /\ LET new == [<<model, scaler, label_encoder, feature_columns>>
                      EXCEPT ![loadPc] = disk[Files[loadPc]]]
       IN  /\ model' = new[1]
           /\ scaler' = new[2]
           /\ label_encoder' = new[3]
           /\ feature_columns' = new[4]
    /\ loadPc' = IF loadPc = 4 THEN 0 ELSE loadPc + 1
    /\ everLoaded' = (everLoaded \/ loadPc = 4)
    /\ UNCHANGED <<disk, savePc, saveRun, features, outcome>>
    /\ UNCHANGED <<calls, trainVars>>

\* save_model of training run r starts (os.makedirs)
SaveStart(r) ==
    /\ savePc = 0
    /\ savePc' = 1
    /\ saveRun' = r
    /\ UNCHANGED <<disk, model, scaler, label_encoder, feature_columns,
                   loadPc, everLoaded, features, outcome>>
    /\ UNCHANGED <<calls, trainVars>>

\* save_model writes file number savePc
SaveFile ==
    /\ savePc \in 1..4
    /\ disk' = [disk EXCEPT ![Files[savePc]] = saveRun]
    /\ savePc' = IF savePc = 4 THEN 0 ELSE savePc + 1
    /\ UNCHANGED <<model, scaler, label_encoder, feature_columns,
                   loadPc, saveRun, everLoaded, features, outcome>>
    /\ UNCHANGED <<calls, trainVars>>

\* the training process is killed between two writes
SaveInterrupted ==
    /\ savePc \in 2..4
    /\ savePc' = 0
    /\ UNCHANGED <<disk, model, scaler, label_encoder, feature_columns,
                   loadPc, saveRun, everLoaded, features, outcome>>
    /\ UNCHANGED <<calls, trainVars>>

----------------------------------------------------------------------------
(* ExoplanetClassifier.load_and_preprocess_data *)

\* A table is a sequence of rows [x |-> feature column -> cell, label |-> disposition].

\* df[df[target].isin(valid_dispositions)]
FilterDispositions(t) ==
    SelectSeq(t, LAMBDA row : row.label \in Range(ValidDispositions))

\* df.dropna(subset=required_cols), required_cols = feature_columns[:9]
DropNaRequired(t) ==
    SelectSeq(t, LAMBDA row : \A i \in 1..NumRequired : row.x[FeatureColumns[i]] # NA)

\* the cells of a column that are not missing, in row order
ColumnValues(t, col) ==
    LET cells == [i \in DOMAIN t |-> t[i].x[col]]
    IN  SelectSeq(cells, LAMBDA v : v # NA)

RECURSIVE Insert(_, _)
Insert(sorted, v) ==
    IF sorted = <<>> THEN <<v>>
    ELSE IF v <= Head(sorted) THEN <<v>> \o sorted
    ELSE <<Head(sorted)>> \o Insert(Tail(sorted), v)

RECURSIVE Sort(_)
Sort(vals) == IF vals = <<>> THEN <<>> ELSE Insert(Sort(Tail(vals)), Head(vals))

\* Series.median(): NaN skipped; NA when nothing is left (NaN)
Median(t, col) ==
    LET s == Sort(ColumnValues(t, col))
        n == Len(s)
    IN  IF n = 0 THEN NA
        ELSE IF n % 2 = 1 THEN s[(n + 1) \div 2]
        ELSE (s[n \div 2] + s[n \div 2 + 1]) \div 2

\* df[col] = df[col].fillna(df[col].median())
FillNa(t, col) ==
    LET m == Median(t, col)
    IN  [i \in DOMAIN t |->
            IF t[i].x[col] = NA THEN [t[i] EXCEPT !.x[col] = m] ELSE t[i]]

\* for col in optional_cols, optional_cols = feature_columns[9:]
RECURSIVE FillOptionalFrom(_, _)
FillOptionalFrom(t, i) ==
    IF i > Len(FeatureColumns) THEN t
    ELSE FillOptionalFrom(FillNa(t, FeatureColumns[i]), i + 1)

\* the medians taken before the rows are dropped
HandleMissingValues_FillFirst(t) == DropNaRequired(FillOptionalFrom(t, NumRequired + 1))

HandleMissingValues(t) == FillOptionalFrom(DropNaRequired(t), NumRequired + 1)

\* the quantile without interpolation (the value at the floor of the position)
Quantile4_Lower(s, q) == 4 * s[((Len(s) - 1) * q) \div 4 + 1]

\* 4 * Series.quantile(q/4) of the sorted values s (linear interpolation)
Quantile4(s, q) ==
    LET h == (Len(s) - 1) * q
        lo == h \div 4 + 1
        frac == h % 4
    IN  IF frac = 0 THEN 4 * s[lo]
        ELSE 4 * s[lo] + frac * (s[lo + 1] - s[lo])

\* the multiplier 1.5 of the IQR rule, doubled
IqrFactor2 == 3

\* df[(df[col] >= lower_bound) & (df[col] <= upper_bound)]; a NaN bound or a
\* NaN cell makes the comparison false
FilterColumn(t, col) ==
    LET s == Sort(ColumnValues(t, col))
    IN  IF s = <<>> THEN <<>>
        ELSE
          LET Q1 == Quantile4(s, 1)
              Q3 == Quantile4(s, 3)
              IQR == Q3 - Q1
              lower_bound == 2 * Q1 - IqrFactor2 * IQR
              upper_bound == 2 * Q3 + IqrFactor2 * IQR
          IN  SelectSeq(t, LAMBDA row :
                  /\ row.x[col] # NA
                  /\ 8 * row.x[col] >= lower_bound
                  /\ 8 * row.x[col] <= upper_bound)

\* for col in self.feature_columns
RECURSIVE RemoveOutliersFrom(_, _)
RemoveOutliersFrom(t, i) ==
    IF i > Len(FeatureColumns) THEN t
    ELSE RemoveOutliersFrom(FilterColumn(t, FeatureColumns[i]), i + 1)

\* every column's bounds computed on the table as it was before the loop
RemoveOutliers_Unfiltered(t) ==
    SelectSeq(t, LAMBDA row :
        \A i \in DOMAIN FeatureColumns :
            \E j \in DOMAIN FilterColumn(t, FeatureColumns[i]) :
                FilterColumn(t, FeatureColumns[i])[j] = row)

RemoveOutliers(t) == RemoveOutliersFrom(t, 1)

----------------------------------------------------------------------------
(* ExoplanetClassifier.train_model and save_model *)

\* label_encoder.fit_transform(y): classes_ are the sorted labels that occur
Classes(t) ==
    SelectSeq(LabelOrder, LAMBDA c : \E i \in DOMAIN t : t[i].label = c)

ClassCounts(t) ==
    [c \in Range(Classes(t)) |-> Cardinality({i \in DOMAIN t : t[i].label = c})]

SumOver(f) ==
    LET RECURSIVE Sum(_)
        Sum(S) == IF S = {} THEN 0
                  ELSE LET c == CHOOSE c \in S : TRUE IN f[c] + Sum(S \ {c})
    IN  Sum(DOMAIN f)

\* test_size=0.2: n_test = ceil(0.2 * n_samples)
TestSize(n) == (n + 4) \div 5

\* cv=5 of cross_val_score
NSplits == 5

\* The stratified draw of n_draws rows from classes of the given sizes: each
\* class gets the floor of its share, and the rows left over go to the largest
\* remainders, ties broken by the seeded generator (any way).
Allocations(counts, n_draws) ==
    LET total == SumOver(counts)
        floored(c) == (counts[c] * n_draws) \div total
        rem(c) == (counts[c] * n_draws) % total
    IN  IF total = 0 THEN {counts}
        ELSE {a \in [DOMAIN counts -> 0..n_draws] :
                /\ SumOver(a) = n_draws
                /\ \A c \in DOMAIN counts : a[c] \in {floored(c), floored(c) + 1}
                /\ \A c, d \in DOMAIN counts :
                      (a[c] = floored(c) + 1 /\ a[d] = floored(d)) => rem(c) >= rem(d)}

NoSplit == [n_train |-> 0, n_test |-> 0, train |-> NoScores, test |-> NoScores]
NotPersisted == [written |-> FALSE, classes |-> <<>>, feature_names |-> <<>>]

\* train_model raises: main stops, save_model is never called
TrainFails(message, fitted) ==
    /\ pc' = "failed"
    /\ raised' = message
    /\ trained' = fitted
    /\ UNCHANGED <<prev, df, split, persisted>>

\* train_model(df), the whole of it.  train_test_split(stratify=) raises for an
\* empty train set, for a class with a single row, and for fewer train or test
\* rows than classes; cross_val_score(cv=5) raises for fewer than 5 train rows
\* and when every class has fewer than 5 train rows; classification_report
\* raises when the labels of y_test and y_pred together are not all of
\* target_names.  The plots are taken to succeed (the models/ directory exists).
TrainModel ==
    /\ pc = "preprocessed"
    /\ LET n == Len(df)
           counts == ClassCounts(df)
           k == Len(Classes(df))
           n_test == TestSize(n)
           n_train == n - n_test
       IN
       IF n_train = 0
       THEN TrainFails("ValueError: the resulting train set will be empty", FALSE)
       ELSE IF \E c \in DOMAIN counts : counts[c] < 2
       THEN TrainFails("ValueError: The least populated class in y has only 1 member", FALSE)
       ELSE IF n_train < k \/ n_test < k
       THEN TrainFails("ValueError: should be greater or equal to the number of classes", FALSE)
       ELSE
         \E a \in Allocations(counts, n_train) :
         \E b \in Allocations([c \in DOMAIN counts |-> counts[c] - a[c]], n_test) :
         \E predicted \in SUBSET DOMAIN counts :
           /\ predicted # {}
           /\ Cardinality(predicted) <= n_test
           /\ IF n_train < NSplits \/ \A c \in DOMAIN counts : a[c] < NSplits
              THEN TrainFails("ValueError: n_splits=5 cannot be greater", TRUE)
              ELSE IF {c \in DOMAIN counts : b[c] > 0} \cup predicted # DOMAIN counts
              THEN TrainFails("ValueError: Number of classes does not match size of target_names", TRUE)
              ELSE /\ pc' = "trained"
                   /\ trained' = TRUE
                   /\ split' = [n_train |-> n_train, n_test |-> n_test,
                                train |-> a, test |-> b]
                   /\ UNCHANGED <<prev, df, raised, persisted>>
    /\ UNCHANGED predVars

\* save_model(): the classifier, the scaler, the label encoder, the feature names
SaveModel ==
    /\ pc = "trained"
    /\ pc' = "saved"
    /\ persisted' = [written |-> TRUE, classes |-> Classes(df),
                     feature_names |-> FeatureColumns]
    /\ UNCHANGED <<prev, df, split, trained, raised>>
    /\ UNCHANGED predVars

\* the three steps of load_and_preprocess_data after read_csv
FilterStep ==
    /\ pc = "loaded"
    /\ pc' = "filtered"
    /\ prev' = df
    /\ df' = FilterDispositions(df)
    /\ UNCHANGED <<split, trained, raised, persisted>>
    /\ UNCHANGED predVars

MissingStep ==
    /\ pc = "filtered"
    /\ pc' = "imputed"
    /\ prev' = df
    /\ df' = HandleMissingValues(df)
    /\ UNCHANGED <<split, trained, raised, persisted>>
    /\ UNCHANGED predVars

OutlierStep ==
    /\ pc = "imputed"
    /\ pc' = "preprocessed"
    /\ prev' = df
    /\ df' = RemoveOutliers(df)
    /\ UNCHANGED <<split, trained, raised, persisted>>
    /\ UNCHANGED predVars

----------------------------------------------------------------------------
(* The tables read_csv hands to the pipeline *)

ZeroRow == [c \in FeatureSet |-> 0]

Row(x, label) == [x |-> x, label |-> label]

\* outlier family: koi_period and koi_impact vary, no cell is missing
NumOutlierKinds == 2 * (MaxVal + 1)
OutlierKind(k) ==
    Row([ZeroRow EXCEPT !["koi_period"] = 2 * ((k - 1) \div 2),
                        !["koi_impact"] = 2 * MaxVal * ((k - 1) % 2)],
        "CONFIRMED")

\* missing-value family: at most one required cell is missing, and the cells
\* of koi_impact and koi_score are missing, 0 or 2 * MaxVal
NumMissingKinds == 3 * (NumRequired + 1)
MissingKind(k) ==
    LET m == (k - 1) \div 3
        y == <<NA, 0, 2 * MaxVal>>[((k - 1) % 3) + 1]
        x == [ZeroRow EXCEPT !["koi_impact"] = y, !["koi_score"] = y]
    IN  Row(IF m = 0 THEN x ELSE [x EXCEPT ![FeatureColumns[m]] = NA], "CANDIDATE")

\* the nondecreasing sequences of n kinds out of 1..K (one table per multiset of rows)
RECURSIVE NonDecreasing(_, _)
NonDecreasing(n, K) ==
    IF n = 0 THEN {<<>>}
    ELSE {Append(p[1], p[2]) :
            p \in {q \in NonDecreasing(n - 1, K) \X (1..K) :
                      q[1] = <<>> \/ q[1][Len(q[1])] <= q[2]}}

OutlierTables ==
    {[i \in DOMAIN s |-> OutlierKind(s[i])] :
        s \in UNION {NonDecreasing(n, NumOutlierKinds) : n \in 0..MaxOutlierRows}}

MissingTables ==
    {[i \in DOMAIN s |-> MissingKind(s[i])] :
        s \in UNION {NonDecreasing(n, NumMissingKinds) : n \in 0..MaxMissingRows}}

\* label family: o rows of another disposition, then c[j] rows of the j-th
\* valid disposition, all with the same cells
LabelTable(o, c) ==
    [i \in 1..(o + c[1] + c[2] + c[3]) |->
        Row(ZeroRow,
            IF i <= o THEN "NOT DISPOSITIONED"
            ELSE IF i <= o + c[1] THEN ValidDispositions[1]
            ELSE IF i <= o + c[1] + c[2] THEN ValidDispositions[2]
            ELSE ValidDispositions[3])]

LabelTables ==
    {LabelTable(o, c) : o \in 0..1, c \in [1..3 -> 0..MaxPerClass]}

Tables == OutlierTables \cup MissingTables \cup LabelTables

----------------------------------------------------------------------------
(* Specifications *)

\* the predictor after its construction in a directory without a bundle
PredInit ==
    /\ disk = [f \in FileSet |-> 0]
    /\ model = None
    /\ scaler = None
    /\ label_encoder = None
    /\ feature_columns = None
    /\ loadPc = 0
    /\ savePc = 0
    /\ saveRun = 0
    /\ everLoaded = FALSE
    /\ features = NoFeatures
    /\ outcome = NoOutcome
    /\ calls = [c \in Calls |-> IdleCall]

\* no training run under way
TrainIdle ==
    /\ pc = "idle"
    /\ prev = <<>>
    /\ df = <<>>
    /\ split = NoSplit
    /\ trained = FALSE
    /\ raised = ""
    /\ persisted = NotPersisted

Init == PredInit /\ TrainIdle

\* the predictor: reloads, whole training runs, predict calls
Next ==
    \/ \E failAt \in 0..4 : LoadModel(failAt)
    \/ \E r \in Runs : TrainingRun(r)
    \/ \E x \in Inputs : Predict(x)
    \/ Respond

Spec == Init /\ [][Next]_vars

\* load_model against save_model, file by file
SaveNext ==
    \/ LoadStart
    \/ LoadFile
    \/ \E r \in Runs : SaveStart(r)
    \/ SaveFile
    \/ SaveInterrupted

SpecSave == Init /\ [][SaveNext]_vars

\* the module-level predictor after its construction in a directory that
\* holds no bundle or the bundle of one training run (a read of file failAt
\* may raise), with no call in flight
ServeInit ==
    /\ disk \in {[f \in FileSet |-> r] : r \in 0..NRuns}
    /\ \E failAt \in 0..4 :
          LET new == LoadModelFields(<<None, None, None, None>>, disk, failAt)
          IN  /\ model = new[1]
              /\ scaler = new[2]
              /\ label_encoder = new[3]
              /\ feature_columns = new[4]
              /\ everLoaded = (AllExist(disk) /\ failAt = 0)
    /\ loadPc = 0
    /\ savePc = 0
    /\ saveRun = 0
    /\ features = NoFeatures
    /\ outcome = NoOutcome
    /\ calls = [c \in Calls |-> IdleCall]
    /\ TrainIdle

\* the request threads, each inside its own predict call
ServeNext ==
    \/ \E c \in Calls, x \in ConcurrentInputs : CallStep(c, x)
    \/ \E c \in Calls : ValidateStep(c)
    \/ \E c \in Calls : InferStep(c)
    \/ \E c \in Calls : MergeStep(c)
    \/ \E c \in Calls : ReturnStep(c)

SpecServe == ServeInit /\ [][ServeNext]_vars

\* one training run, from the table read_csv returned
TrainInit ==
    /\ PredInit
    /\ pc = "loaded"
    /\ prev = <<>>
    /\ df \in Tables
    /\ split = NoSplit
    /\ trained = FALSE
    /\ raised = ""
    /\ persisted = NotPersisted

TrainNext ==
    \/ FilterStep
    \/ MissingStep
    \/ OutlierStep
    \/ TrainModel
    \/ SaveModel

SpecTrain == TrainInit /\ [][TrainNext]_vars

----------------------------------------------------------------------------
(* Claims about the predictor *)

Fields == <<model, scaler, label_encoder, feature_columns>>

\* all four artifacts are loaded
Ready == \A i \in 1..4 : Fields[i] # None
\* the four artifacts come from one training run
SameBundle == \A i \in 1..4 : Fields[i] = Fields[1]

\* the probability the returned call's classifier gave to a label, as the
\* label encoder pairs labels with the columns of predict_proba
ProbabilityOf(label) ==
    IF \E i \in DOMAIN outcome.classes : outcome.classes[i] = label
    THEN outcome.probabilities[CHOOSE i \in DOMAIN outcome.classes :
                                  outcome.classes[i] = label]
    ELSE 0

LackedRequired == {f \in RequiredSet : features[f] = NA}

\* C1: whenever predict returns, the verdict is CONFIRMED/CANDIDATE exactly when
\* P(CONFIRMED) + P(CANDIDATE) is strictly greater than P(FALSE POSITIVE), and
\* FALSE POSITIVE otherwise (so also when the two merged scores are equal).
C1_VerdictRule ==
    outcome.kind = "return" =>
        /\ outcome.prediction \in {CC, FP}
        /\ outcome.prediction = CC <=>
              ProbabilityOf("CONFIRMED") + ProbabilityOf("CANDIDATE")
                  > ProbabilityOf("FALSE POSITIVE")

\* a call on a whole bundle returned with the two merged scores equal
C1_Witness ==
    /\ outcome.kind = "return"
    /\ SameBundle
    /\ ProbabilityOf("FALSE POSITIVE") > 0
    /\ ProbabilityOf("CONFIRMED") + ProbabilityOf("CANDIDATE")
          = ProbabilityOf("FALSE POSITIVE")
    /\ outcome.prediction = FP

\* C2: on a Ready predictor holding one training run's bundle, a call with all
\* nine required features returns, and its confidence mapping has exactly the
\* keys CONFIRMED/CANDIDATE and FALSE POSITIVE, whose values sum to 1.
C2_TwoKeysSumToOne ==
    (outcome.kind # "none" /\ Ready /\ SameBundle /\ LackedRequired = {}) =>
        /\ outcome.kind = "return"
        /\ DOMAIN outcome.confidence_scores = {CC, FP}
        /\ SumOver(outcome.confidence_scores) = NTrees

\* C3: while no load_model call has completed successfully, every predict call
\* raises the model-not-loaded error.
C3_UnreadyRaisesNotLoaded ==
    (outcome.kind # "none" /\ ~everLoaded) =>
        /\ outcome.kind = "raise"
        /\ outcome.error = "ValueError: Model not loaded"

\* C4: after every load_model call the four artifacts are all unset, or all set
\* and from the same bundle.
C4_AllOrNothing ==
    loadPc = 0 =>
        \/ \A i \in 1..4 : Fields[i] = None
        \/ Ready /\ SameBundle

\* C5: on a Ready predictor, a call whose input lacks exactly one required
\* feature f raises the validation error naming f and returns no result.
C5_MissingRequiredNamed ==
    \A f \in RequiredSet :
        (outcome.kind # "none" /\ Ready /\ LackedRequired = {f}) =>
            /\ outcome.kind = "raise"
            /\ outcome.error = "ValueError: Required feature is missing"
            /\ outcome.named = f
            /\ outcome.prediction = ""
            /\ outcome.confidence_scores = NoScores

\* the last required feature is the one lacking, and an optional one is left out too
C5_Witness ==
    /\ Ready
    /\ outcome.kind = "raise"
    /\ LackedRequired = {"koi_srad"}
    /\ features["koi_impact"] = NA
    /\ outcome.named = "koi_srad"

C7_ReadyHoldsOneRun ==
    (loadPc = 0 /\ Ready) => SameBundle

\* call c, were it the only one: predict on the given input, run as one step
Alone(c) ==
    PredictOutcome(model, scaler, label_encoder, feature_columns, calls[c].given)

\* C11: no step of a predict call changes the predictor's four artifacts (so
\* the scaler is never refit) or the dict its caller passed, whether the call
\* returns or raises; and whatever the interleaving of the calls in flight,
\* each call ends with the result it has when run alone.
C11_CallsDoNotInterfere ==
    /\ [][<<model, scaler, label_encoder, feature_columns>>'
            = <<model, scaler, label_encoder, feature_columns>>]_vars
    /\ [](\A c \in Calls :
            /\ calls[c].arg = calls[c].given
            /\ calls[c].pc = "done" => calls[c].result = Alone(c))

\* on a Ready predictor one call has returned for an input whose koi_impact was
\* defaulted, while another call, in flight at the same time with another
\* input, has raised
C11_Witness ==
    /\ Ready
    /\ \E c, d \in Calls :
          /\ calls[c].pc = "done"
          /\ calls[c].result.kind = "return"
          /\ calls[c].given["koi_impact"] = NA
          /\ calls[c].features_df["koi_impact"] = DefaultOptional
          /\ calls[d].pc = "done"
          /\ calls[d].result.kind = "raise"
          /\ calls[d].given # calls[c].given

\* C13: a returned result is decided by the class probabilities alone, not by
\* the classifier's own label: the verdict is CONFIRMED/CANDIDATE whenever
\* P(CONFIRMED) + P(CANDIDATE) > P(FALSE POSITIVE), also when FALSE POSITIVE is
\* the most probable single class, and max_confidence is the merged score of
\* the returned verdict.
C13_ProbabilitiesDecide ==
    outcome.kind = "return" =>
        LET cc == ProbabilityOf("CONFIRMED") + ProbabilityOf("CANDIDATE")
            fp == ProbabilityOf("FALSE POSITIVE")
        IN  /\ cc > fp => outcome.prediction = CC
            /\ outcome.prediction = CC => outcome.max_confidence = cc
            /\ outcome.prediction = FP => outcome.max_confidence = fp
            /\ outcome.prediction \in DOMAIN outcome.confidence_scores =>
                  outcome.max_confidence
                      = outcome.confidence_scores[outcome.prediction]

\* on a whole bundle the classifier's own label is FALSE POSITIVE, the single
\* most probable class, and the returned verdict is CONFIRMED/CANDIDATE
C13_Witness ==
    /\ outcome.kind = "return"
    /\ SameBundle
    /\ outcome.classes[ModelPredict(outcome.probabilities)] = "FALSE POSITIVE"
    /\ ProbabilityOf("FALSE POSITIVE") > ProbabilityOf("CONFIRMED")
    /\ ProbabilityOf("FALSE POSITIVE") > ProbabilityOf("CANDIDATE")
    /\ outcome.prediction = CC
    /\ outcome.max_confidence > ProbabilityOf("FALSE POSITIVE")

----------------------------------------------------------------------------
(* Claims about preprocessing and training *)

\* t is u with some rows left out (the rows kept are unchanged and in order)
RECURSIVE IsSubTable(_, _)
IsSubTable(t, u) ==
    IF t = <<>> THEN TRUE
    ELSE IF u = <<>> THEN FALSE
    ELSE IF Head(t) = Head(u) THEN IsSubTable(Tail(t), Tail(u))
    ELSE IsSubTable(t, Tail(u))

\* C8 as stated: the outlier pass applied to its own output removes no row.
C8_Idempotent ==
    pc = "preprocessed" => RemoveOutliers(df) = df

\* C8 amended: the outlier pass applied to its own output only leaves rows out,
\* and leaves none out when that output has at most 3 rows.
C8_SecondPassOnlyRemoves ==
    pc = "preprocessed" =>
        /\ IsSubTable(RemoveOutliers(df), df)
        /\ Len(df) <= 3 => RemoveOutliers(df) = df

\* the first pass removed a row and left 3 rows, which the second pass keeps
C8_Witness ==
    /\ pc = "preprocessed"
    /\ Len(df) = 3
    /\ Len(prev) > 3
    /\ \E i, j \in DOMAIN df : df[i] # df[j]
    /\ RemoveOutliers(df) = df

\* the rows of prev with no missing required cell, by position
Survivors == {i \in DOMAIN prev : \A c \in RequiredSet : prev[i].x[c] # NA}

\* the position in prev of the k-th surviving row
SurvivorAt(k) ==
    CHOOSE i \in Survivors : Cardinality({j \in Survivors : j <= i}) = k

\* the k-th smallest of the cells of column c that are present in the rows S
KthSmallest(S, c, k) ==
    CHOOSE v \in {prev[i].x[c] : i \in S} :
        /\ Cardinality({i \in S : prev[i].x[c] < v}) < k
        /\ Cardinality({i \in S : prev[i].x[c] <= v}) >= k

\* the median of column c over the rows `among` of prev (NA when no cell is present)
MedianOver(among, c) ==
    LET S == {i \in among : prev[i].x[c] # NA}
        n == Cardinality(S)
    IN  IF n = 0 THEN NA
        ELSE IF n % 2 = 1 THEN KthSmallest(S, c, (n + 1) \div 2)
        ELSE (KthSmallest(S, c, n \div 2) + KthSmallest(S, c, n \div 2 + 1)) \div 2

\* C9: after the missing-value step the table holds exactly the rows without a
\* missing required cell, in order and unchanged, except that each missing
\* optional cell holds its column's median over those surviving rows.
C9_DropThenImpute ==
    pc = "imputed" =>
        /\ Len(df) = Cardinality(Survivors)
        /\ \A k \in DOMAIN df :
              LET old == prev[SurvivorAt(k)]
              IN  /\ df[k].label = old.label
                  /\ \A c \in FeatureSet :
                        df[k].x[c] = IF old.x[c] # NA THEN old.x[c]
                                     ELSE MedianOver(Survivors, c)

\* a row was dropped, a missing koi_impact cell was filled, and the median over
\* all rows would have been another value
C9_Witness ==
    /\ pc = "imputed"
    /\ Survivors # DOMAIN prev
    /\ \E i \in Survivors : prev[i].x["koi_impact"] = NA
    /\ MedianOver(Survivors, "koi_impact") # NA
    /\ MedianOver(Survivors, "koi_impact") # MedianOver(DOMAIN prev, "koi_impact")

\* C10: when the preprocessed table is empty or holds fewer than 2 rows of one
\* of the three labels, train_model raises at the split: no classifier is
\* fitted and nothing is persisted.
C10_TooFewRowsFails ==
    (/\ pc \in {"failed", "trained", "saved"}
     /\ \/ Len(df) = 0
        \/ \E l \in Range(ValidDispositions) :
              Cardinality({i \in DOMAIN df : df[i].label = l}) < 2)
    => /\ pc = "failed"
       /\ ~trained
       /\ ~persisted.written

\* 4 * the quartile q/4 of column c over the rows S of prev, none of whose cells
\* is missing (linear interpolation between the neighbouring ranks)
QuartileOver(S, c, q) ==
    LET h == (Cardinality(S) - 1) * q
        k == h \div 4 + 1
        w == h % 4
    IN  IF w = 0 THEN 4 * KthSmallest(S, c, k)
        ELSE (4 - w) * KthSmallest(S, c, k) + w * KthSmallest(S, c, k + 1)

\* row r of prev has a cell in column c that lies in
\* [Q1 - 1.5 * IQR, Q3 + 1.5 * IQR], the quartiles taken over the rows S
InBounds(r, S, c) ==
    LET P == {i \in S : prev[i].x[c] # NA}
    IN  /\ prev[r].x[c] # NA
        /\ P # {}
        /\ LET Q1 == QuartileOver(P, c, 1)
               Q3 == QuartileOver(P, c, 3)
           IN  /\ 8 * prev[r].x[c] >= 2 * Q1 - 3 * (Q3 - Q1)
               /\ 8 * prev[r].x[c] <= 2 * Q3 + 3 * (Q3 - Q1)

\* the rows of prev, by position, that survive the filters of the first i
\* columns of the schema, each filter computed over the survivors of the
\* columns before it
RECURSIVE KeptAfter(_)
KeptAfter(i) ==
    IF i = 0 THEN DOMAIN prev
    ELSE LET S == KeptAfter(i - 1)
         IN  {r \in S : InBounds(r, S, FeatureColumns[i])}

\* the rows of prev that lie within every column's bounds computed over all of prev
KeptUnfiltered ==
    {r \in DOMAIN prev : \A c \in FeatureSet : InBounds(r, DOMAIN prev, c)}

\* the position in prev of the k-th row of S
RowAt(S, k) == CHOOSE i \in S : Cardinality({j \in S : j <= i}) = k

\* C12: the outlier step leaves exactly the rows that survive the 12 columns'
\* IQR filters taken in schema order, each column's Q1, Q3 and IQR computed
\* over the rows that survived all earlier columns, in order and unchanged.
C12_SequentialIqr ==
    pc = "preprocessed" =>
        LET S == KeptAfter(Len(FeatureColumns))
        IN  /\ Len(df) = Cardinality(S)
            /\ \A k \in DOMAIN df : df[k] = prev[RowAt(S, k)]

\* a koi_period outlier was removed first, and a row that lies within the
\* koi_impact bounds of the whole table fell outside those of the survivors
C12_Witness ==
    /\ pc = "preprocessed"
    /\ df # <<>>
    /\ KeptAfter(1) # DOMAIN prev
    /\ \E r \in KeptUnfiltered : r \in KeptAfter(1) /\ r \notin KeptAfter(Len(FeatureColumns))

====
